---- MODULE Spec2Model ----
(***************************************************************************)
(* Model of the /api/generate back end of openmacaron.                     *)
(*                                                                         *)
(* src/backend/server.js holds three successive server programs:           *)
(*   server 1 (lines   1-124): runAgentFlow, one chat completion           *)
(*   server 2 (lines 126-387): runStitchAgentFlow with interaction_id,     *)
(*                             create_project / generate / genCode         *)
(*   server 3 (lines 388-598): runStitchAgentFlow, create_project /        *)
(*                             generate / get_screen / get_screen          *)
(* A process runs one of them; Init chooses which, together with the       *)
(* process environment it reads once at start-up.                          *)
(*                                                                         *)
(* JavaScript strings are sequences of tokens.  A token is a word or a     *)
(* single character of the source ("projects", "/", "<html", " ").         *)
(* undefined and null are two reserved one-token sequences, which no text  *)
(* that is built from an alphabet below can equal.                         *)
(*                                                                         *)
(* Node runs a handler without interruption from one await to the next, so *)
(* each action is the code between two awaits of one request.              *)
(*                                                                         *)
(* Specifications:                                                         *)
(*   Spec, FairSpec  one request through one of the three servers          *)
(*   InvokerSpec     one call of callStitchToolDirect, any response        *)
(*   ConcSpec        several requests in hand at once (servers 2, 3)       *)
(*   ClientSpec      the chat client of src/client/src/App.tsx             *)
(***************************************************************************)
EXTENDS Naturals, Sequences, FiniteSets, TLC

\* ------------------------------------------------------------ bounds ----
\* longest response text (in tokens) the remote services answer with
MaxTextLen == 3

\* the requests the server handles
Reqs == {1}

\* how many requests the server has in hand at once, where they interleave
MaxConc == 2

\* how many prompts the user submits in the chat client
MaxSends == 2

\* ------------------------------------------------- JavaScript values ----
Undefined == <<"#undefined">>
Null == <<"#null">>

\* truthiness of a string-or-undefined value: undefined, null and "" are falsy
Truthy(v) == v # Undefined /\ v # Null /\ v # <<>>

\* a || b
Or(a, b) == IF Truthy(a) THEN a ELSE b

IsSpace(c) == c = " "

RECURSIVE TrimStart(_)
TrimStart(s) ==
  IF s # <<>> /\ IsSpace(Head(s)) THEN TrimStart(Tail(s)) ELSE s

RECURSIVE TrimEnd(_)
TrimEnd(s) ==
  IF s # <<>> /\ IsSpace(s[Len(s)]) THEN TrimEnd(SubSeq(s, 1, Len(s) - 1)) ELSE s

\* String.prototype.trim
Trim(s) == TrimEnd(TrimStart(s))

\* String.prototype.includes, for a one-token needle
Includes(s, tok) == \E i \in DOMAIN s : s[i] = tok

\* hay contains needle as a contiguous substring
Contains(hay, needle) ==
  \E i \in 0..(Len(hay) - Len(needle)) :
     SubSeq(hay, i + 1, i + Len(needle)) = needle

\* all texts of at most n tokens over an alphabet
Texts(chars, n) == UNION {[1..k -> chars] : k \in 0..n}

\* ------------------------------------------------- Result Extractor ----
\* the longest run of tokens of s, from position i on, none of which is in stop
RECURSIVE Run(_, _, _)
Run(s, i, stop) ==
  IF i > Len(s) \/ s[i] \in stop THEN <<>>
  ELSE <<s[i]>> \o Run(s, i + 1, stop)

\* text.match(/lit([^stop]+)/): the capture group of the leftmost match, or
\* Null when the literal is nowhere followed by a character outside stop
RECURSIVE MatchFrom(_, _, _, _)
MatchFrom(s, i, lit, stop) ==
  IF i + Len(lit) > Len(s) THEN Null
  ELSE IF SubSeq(s, i, i + Len(lit) - 1) = lit /\ s[i + Len(lit)] \notin stop
    THEN Run(s, i + Len(lit), stop)
  ELSE MatchFrom(s, i + 1, lit, stop)

\* idMatch = text.match(/projects\/([^\s"']+)/); idMatch ? idMatch[1] : null
ProjectIdOf(text) == MatchFrom(text, 1, <<"projects", "/">>, {" ", "\"", "'"})

\* screenMatch = genText.match(/screens\/([^"\s/]+)/); screenMatch ? screenMatch[1] : null
ScreenIdOf(text) == MatchFrom(text, 1, <<"screens", "/">>, {" ", "\"", "/"})

\* ------------------------------------------------------ log and calls ----
\* addLog(source, text): logs.push('[' + source + '] ' + text)
addLog(f, source, text) ==
  [f EXCEPT !.logs = Append(@, [source |-> source, text |-> text])]

\* one outbound request as the transport sees it: the tool (or service) that
\* is called, the credential in its header, and the arguments the flow's
\* branches depend on
Call(tool, cred, projectId, screenId, interaction) ==
  [tool |-> tool, cred |-> cred, projectId |-> projectId,
   screenId |-> screenId, interaction_id |-> interaction]

\* fetch(...): the request leaves the process and the flow waits at pc
Send(f, call, pc) == [f EXCEPT !.calls = Append(@, call), !.pc = pc]

\* ------------------------------------------------------- Tool Invoker ----
\* data.result of a JSON-RPC answer: absent, or an object with isError and a
\* content array of at most one item, whose text may be missing
ToolResults(texts) ==
  [present : {FALSE}, isError : {FALSE}, content : {<<>>}]
  \cup [present : {TRUE}, isError : BOOLEAN,
        content : {<<>>, <<Undefined>>} \cup {<<t>> : t \in texts}]

\* data.result when the body holds none
NoResult == [present |-> FALSE, isError |-> FALSE, content |-> <<>>]

\* results flagged isError, and results that are not
ErrorResults(texts) == {x \in ToolResults(texts) : x.isError}
PlainResults(texts) == {x \in ToolResults(texts) : ~x.isError}

\* what the transport hands back to one fetch: a network failure, or a
\* response with a status and a body text.  A body that does not parse has
\* no members; one that parses may hold an error member (with or without a
\* message) beside any result
Response(net, status, text, json, error, message, result) ==
  [net |-> net, status |-> status, text |-> text, json |-> json,
   error |-> error, message |-> message, result |-> result]

\* the response bodies of a set of statuses: unparseable, with an error
\* member, with one of the results
Bodies(statuses, text, messages, failed, results) ==
  {Response("ok", st, text, FALSE, FALSE, Undefined, NoResult) : st \in statuses}
  \cup {Response("ok", st, text, TRUE, TRUE, m, x) :
          st \in statuses, m \in messages, x \in failed}
  \cup {Response("ok", st, text, TRUE, FALSE, Undefined, x) :
          st \in statuses, x \in results}

NetworkDown == Response("down", 200, <<>>, FALSE, FALSE, Undefined, NoResult)

\* the answers a flow's tool call can get: a network failure, an HTTP error
\* status, or a 200 whose result carries one of the texts
ToolResponses(texts) ==
  {NetworkDown}
  \cup Bodies({401, 500}, <<"body">>, {<<"upstream">>}, {NoResult}, {NoResult})
  \cup Bodies({200}, <<"body">>, {<<"upstream">>}, ToolResults({}),
              PlainResults(texts) \cup ErrorResults({}))

Thrown(msg) == [ok |-> FALSE, msg |-> msg, result |-> Null]
Returned(result) == [ok |-> TRUE, msg |-> <<>>, result |-> result]

\* response.ok: the status is in the range 200-299
ResponseOk(status) == status >= 200 /\ status <= 299

\* data.result.content?.[0]?.text
ErrorText(result) ==
  IF result.content = <<>> THEN Undefined ELSE result.content[1]

\* callStitchToolDirect with the error member tested before the status
callStitchToolDirectErrorFirst(resp) ==
  IF resp.net = "down" THEN Thrown(<<"fetch failed">>)
  ELSE IF resp.json /\ resp.error
    THEN Thrown(<<"MCP logic error: ">> \o Or(resp.message, <<"{error}">>))
  ELSE IF ~ResponseOk(resp.status) THEN
         IF resp.status = 401
           THEN Thrown(<<"auth failed (401), body: ">> \o resp.text)
           ELSE Thrown(<<"HTTP Error ", ToString(resp.status), ": ">> \o resp.text)
  ELSE IF ~resp.json
    THEN Thrown(<<"cannot parse response JSON: ">> \o resp.text)
  ELSE IF resp.result.present /\ resp.result.isError
    THEN Thrown(<<"tool returned error: ">>
                  \o Or(ErrorText(resp.result), <<"unknown error">>))
  ELSE Returned(resp.result)

\* callStitchToolDirect, from the response on: the checks in source order,
\* each message with the upstream text the source puts in it
callStitchToolDirect(resp) ==
  IF resp.net = "down" THEN Thrown(<<"fetch failed">>)
  ELSE IF ~ResponseOk(resp.status) THEN
         IF resp.status = 401
           THEN Thrown(<<"auth failed (401), body: ">> \o resp.text)
           ELSE Thrown(<<"HTTP Error ", ToString(resp.status), ": ">> \o resp.text)
  ELSE IF ~resp.json
    THEN Thrown(<<"cannot parse response JSON: ">> \o resp.text)
  ELSE IF resp.error
    THEN Thrown(<<"MCP logic error: ">> \o Or(resp.message, <<"{error}">>))
  ELSE IF resp.result.present /\ resp.result.isError
    THEN Thrown(<<"tool returned error: ">>
                  \o Or(ErrorText(resp.result), <<"unknown error">>))
  ELSE Returned(resp.result)

\* result.content[0].text: a TypeError when result, content or content[0] is
\* missing, else the text (which may itself be undefined)
HasContentItem(result) == result.present /\ result.content # <<>>
ContentText(result) == result.content[1]

TypeError == <<"TypeError">>

\* a value inside a template literal or after 'text' +
Str(v) == IF v = Undefined THEN <<"undefined">>
          ELSE IF v = Null THEN <<"null">> ELSE v

\* v[name] for a name that is neither an index nor "length": a string has no
\* such property, so the lookup yields undefined
Prop(v, name) == Undefined

\* -------------------------------------------------------------- state ----
VARIABLES
  server,               \* which of the three programs of server.js runs
  DEEPSEEK_API_KEY,     \* process.env.DEEPSEEK_API_KEY      (server 1)
  E2B_ACCESS_TOKEN,     \* process.env.E2B_ACCESS_TOKEN      (server 1)
  STITCH_ACCESS_TOKEN,  \* process.env.STITCH_ACCESS_TOKEN   (servers 2, 3)
  DEFAULT_PROJECT_ID,   \* process.env.STITCH_PROJECT_ID     (servers 2, 3)
  reqs,                 \* per request: the handler's and the flow's frame
  invocation,           \* one call of callStitchToolDirect, taken on its own
  client                \* the chat client (App.tsx) and its requests in flight

env == <<server, DEEPSEEK_API_KEY, E2B_ACCESS_TOKEN, STITCH_ACCESS_TOKEN,
         DEFAULT_PROJECT_ID>>
vars == <<server, DEEPSEEK_API_KEY, E2B_ACCESS_TOKEN, STITCH_ACCESS_TOKEN,
          DEFAULT_PROJECT_ID, reqs, invocation, client>>

\* values an environment variable or a request field can hold
EnvKeys == {Undefined, <<" ">>, <<"envkey">>}
EnvProjects == {Undefined, <<>>, <<"dflt">>}
EnvE2b == {Undefined, <<"e2benv">>}
Prompts == {<<>>, <<"todo">>}
ReqKeys == {Undefined, <<" ">>, <<"reqkey">>}
ReqE2b == {Undefined, <<"e2breq">>}
Interactions == {Undefined, <<>>, <<" ">>, <<"tok">>}

\* alphabets of the remote services' answers
ProjectChars == {"projects", "/", " "}
ScreenChars == {"screens", "/", "x"}
HtmlChars == {"<html", "x"}
\* "~~~" stands for the three-backquote Markdown fence
ChatChars == {"~~~html", "~~~", "<html"}

\* what a capturing stub transport keeps of the last payload it served: the
\* markup in it, and the status and interaction id of a code-generation answer
Payload(status, markup, interaction) ==
  [status |-> status, markup |-> markup, interaction_id |-> interaction]
NoPayload == Payload(Undefined, Undefined, Undefined)

\* the frame of a request that has not arrived yet: the handler's and the
\* flow's locals, the replies sent, and what the stub transport captured
\* (calls: the requests sent, settled: whether each came back without a
\* failure, payload: the last detail or code-generation payload served)
Idle ==
  [pc |-> "idle", prompt |-> Undefined, key |-> Undefined,
   e2bToken |-> Undefined, interaction_id |-> Undefined, token |-> Undefined,
   projectId |-> Undefined, genText |-> Undefined, screenId |-> Undefined,
   structuredContent |-> <<"{}">>, logs |-> <<>>,
   result |-> <<>>, fault |-> Null, responses |-> <<>>,
   calls |-> <<>>, settled |-> <<>>, payload |-> NoPayload]

\* a tool invocation that has not started
NoInvocation ==
  [pc |-> "idle", tool |-> Undefined, token |-> Undefined, fetches |-> 0,
   response |-> NetworkDown, outcome |-> Thrown(<<>>)]

\* the App component as first rendered (useState initial values), with no
\* request sent: the prompts submitted so far, and the fetches in flight
App ==
  [input |-> <<>>, isLoading |-> FALSE, agentLogs |-> <<>>,
   currentArtifact |-> Null, submitted |-> <<>>, inflight |-> {},
   shown |-> 0]

Init ==
  /\ invocation = NoInvocation
  /\ client = App
  /\ server \in {1, 2, 3}
  /\ DEEPSEEK_API_KEY \in (IF server = 1 THEN EnvKeys ELSE {Undefined})
  /\ E2B_ACCESS_TOKEN \in (IF server = 1 THEN EnvE2b ELSE {Undefined})
  /\ STITCH_ACCESS_TOKEN \in (IF server = 1 THEN {Undefined} ELSE EnvKeys)
  /\ DEFAULT_PROJECT_ID \in (IF server = 1 THEN {Undefined} ELSE EnvProjects)
  /\ reqs = [r \in Reqs |-> Idle]

\* ------------------------------------------------- FlowResult, replies ----
FlowResult(success, logs, code, error, interaction) ==
  [success |-> success, logs |-> logs, code |-> code, error |-> error,
   interaction_id |-> interaction]

\* return <FlowResult> inside the flow function; the texts the frame held
\* go with it
Return(f, result) ==
  [f EXCEPT !.pc = "returned", !.result = Append(@, result),
            !.genText = Undefined, !.structuredContent = Undefined]

\* a throw that leaves the flow function
Throw(f, msg) == [f EXCEPT !.pc = "threw", !.fault = msg]

\* res.status(status).json({ error }) and res.json(result)
Reply(f, status, error, body) ==
  [f EXCEPT !.pc = "done",
            !.responses = Append(@, [status |-> status, error |-> error,
                                     body |-> body])]

\* ------------------------------------- Flow Orchestrator, servers 2, 3 ----
\* a catch block that logs and rethrows
CatchRethrow(f, msg) == Throw(addLog(f, "Error", msg), msg)

\* catch (error) { addLog('Error', error.message); return { success: false, ... } }
Catch(f, msg) ==
  LET g == addLog(f, "Error", msg)
  IN  Return(g, FlowResult(FALSE, g.logs, Undefined, msg, Undefined))

ProjectIdError == <<"project creation failed or id cannot be parsed">>

\* addLog(...); callStitchToolDirect('create_project', { title }, token)
CallCreateProject(f) ==
  Send(addLog(f, "Stitch", <<"no project id, creating a project">>),
       Call("create_project", f.token, Undefined, Undefined, Undefined),
       "create_project")

\* ResolveProject without the throw on a missing id
ResolveProjectNoThrow(f, resp) ==
  LET r == callStitchToolDirect(resp)
  IN  IF ~r.ok THEN Catch(f, r.msg)
      ELSE IF ~HasContentItem(r.result) \/ ContentText(r.result) = Undefined
        THEN Catch(f, TypeError)
      ELSE LET f1 == [f EXCEPT !.projectId = ProjectIdOf(ContentText(r.result))]
           IN  addLog(f1, "Stitch", <<"project ready: ">> \o Str(f1.projectId))

\* the create_project answer: the text of its first content item, the id
\* matched in it, the throw when there is none, the 'project ready' entry
ResolveProject(f, resp) ==
  LET r == callStitchToolDirect(resp)
  IN  IF ~r.ok THEN Catch(f, r.msg)
      ELSE IF ~HasContentItem(r.result) \/ ContentText(r.result) = Undefined
        THEN Catch(f, TypeError)
      ELSE LET f1 == [f EXCEPT !.projectId = ProjectIdOf(ContentText(r.result))]
           IN  IF ~Truthy(f1.projectId) THEN Catch(f1, ProjectIdError)
               ELSE addLog(f1, "Stitch", <<"project ready: ">> \o f1.projectId)

\* addLog(...); callStitchToolDirect('generate_screen_from_text', { projectId, ... }, token)
CallGenerate(f) ==
  Send(addLog(f, "Stitch", <<"sending the design request">>),
       Call("generate_screen_from_text", f.token, f.projectId, Undefined,
            Undefined),
       "generate_screen_from_text")

\* ---- server 3: create_project, generate, get_screen, get_screen
\* runStitchAgentFlow3 that creates a project whatever the configuration
runStitchAgentFlow3AlwaysCreate(f) ==
  CallCreateProject(addLog(f, "System", <<"design task: ">> \o Str(f.prompt)))

\* runStitchAgentFlow(userQuery, token) up to its first await
runStitchAgentFlow3(f) ==
  LET f1 == addLog(f, "System", <<"design task: ">> \o Str(f.prompt))
      f2 == [f1 EXCEPT !.projectId = DEFAULT_PROJECT_ID]
  IN  IF ~Truthy(f2.projectId) THEN CallCreateProject(f2) ELSE CallGenerate(f2)

AfterCreate3(f, resp) ==
  LET g == ResolveProject(f, resp)
  IN  IF g.pc = "returned" THEN g ELSE CallGenerate(g)

\* genText = genResult.content[0].text, then the first get_screen call
AfterGenerate3(f, resp) ==
  LET r == callStitchToolDirect(resp)
  IN  IF ~r.ok THEN Catch(f, r.msg)
      ELSE IF ~HasContentItem(r.result) THEN Catch(f, TypeError)
      ELSE Send([f EXCEPT !.genText = ContentText(r.result)],
                Call("get_screen", f.token, f.projectId, Undefined, Undefined),
                "get_screen")

Placeholder3(projectId, screenId) ==
  <<"<!-- Stitch Preview -->", "project: ">> \o Str(projectId)
    \o <<"screen: ">> \o Str(screenId) \o <<"</div>">>

\* the answer of the first get_screen is dropped; the screen id is matched in
\* genText; with an id the detail is fetched, without one the flow returns
AfterGetScreen3(f, resp) ==
  LET r == callStitchToolDirect(resp)
  IN  IF ~r.ok THEN Catch(f, r.msg)
      ELSE IF f.genText = Undefined THEN Catch(f, TypeError)
      ELSE LET f1 == [f EXCEPT !.screenId = ScreenIdOf(f.genText)]
           IN  IF ~Truthy(f1.screenId)
                 THEN LET f2 == addLog(f1, "Stitch", <<"design stored, no preview id">>)
                      IN  Return(f2, FlowResult(TRUE, f2.logs, <<>>, Undefined,
                                                Undefined))
                 ELSE Send(addLog(addLog(f1, "Stitch",
                                         <<"generated, Screen ID: ">> \o f1.screenId),
                                  "Stitch", <<"exporting HTML source">>),
                           Call("get_screen", f1.token, f1.projectId, f1.screenId,
                                Undefined),
                           "get_screen_detail")

\* Step 3 of server 3: the detail text verbatim when it includes '<html',
\* else the placeholder
AfterDetail3(f, resp) ==
  LET r == callStitchToolDirect(resp)
  IN  IF ~r.ok THEN Catch(f, r.msg)
      ELSE IF ~HasContentItem(r.result) \/ ContentText(r.result) = Undefined
        THEN Catch(f, TypeError)
      ELSE LET detailText == ContentText(r.result)
               f1 == IF Includes(detailText, "<html")
                       THEN addLog(f, "Stitch", <<"code extracted">>)
                       ELSE addLog(f, "Stitch", <<"not HTML, placeholder">>)
               finalCode == IF Includes(detailText, "<html") THEN detailText
                            ELSE Placeholder3(f.projectId, f.screenId)
           IN  Return(f1, FlowResult(TRUE, f1.logs, finalCode, Undefined,
                                     Undefined))

\* ---- server 2: create_project, generate, genCode; interaction_id shortcut
\* the JSON document the code-generation service answers with
GenCodeDocs ==
  [status : {<<"completed">>, <<"failed">>},
   htmlCode : Texts(HtmlChars, MaxTextLen),
   interaction_id : {Undefined, <<"tok2">>}]

\* the text of the response body: the document serialised
BodyText(doc) ==
  <<"{status:">> \o doc.status \o <<"htmlCode:">> \o doc.htmlCode
    \o <<"interaction_id:">> \o Str(doc.interaction_id) \o <<"}">>

\* what the code-generation service hands back to genCode's fetch
GenCodeResponses == [net : {"ok", "down"}, doc : GenCodeDocs]

\* genCode: response.text() as it is, whatever the status; a fetch failure
\* is rethrown
genCode(resp) ==
  IF resp.net = "down" THEN Thrown(<<"fetch failed">>)
  ELSE Returned(BodyText(resp.doc))

\* genCode(userQuery, structuredContent, interaction_id), up to its fetch
CallGenCode(f) ==
  Send(f, Call("genCode", Undefined, Undefined, Undefined, f.interaction_id),
       "genCode")

\* runStitchAgentFlow2 whose branch tests !interaction_id alone
runStitchAgentFlow2NoTrim(f) ==
  LET f1 == [f EXCEPT !.projectId = DEFAULT_PROJECT_ID]
  IN  IF ~Truthy(f1.interaction_id)
        THEN LET f2 == addLog(f1, "System", <<"design task: ">> \o Str(f1.prompt))
             IN  IF ~Truthy(f2.projectId) THEN CallCreateProject(f2)
                 ELSE CallGenerate(f2)
        ELSE CallGenCode(f1)

\* runStitchAgentFlow(userQuery, token, interaction_id) up to its first await
runStitchAgentFlow2(f) ==
  LET f1 == [f EXCEPT !.projectId = DEFAULT_PROJECT_ID]
  IN  IF ~Truthy(f1.interaction_id) \/ Trim(f1.interaction_id) = <<>>
        THEN LET f2 == addLog(f1, "System", <<"design task: ">> \o Str(f1.prompt))
             IN  IF ~Truthy(f2.projectId) THEN CallCreateProject(f2)
                 ELSE CallGenerate(f2)
        ELSE CallGenCode(f1)

AfterCreate2(f, resp) ==
  LET g == ResolveProject(f, resp)
  IN  IF g.pc = "returned" THEN g ELSE CallGenerate(g)

\* structuredContent = genResult["structuredContent"], then genCode
AfterGenerate2(f, resp) ==
  LET r == callStitchToolDirect(resp)
  IN  IF ~r.ok THEN Catch(f, r.msg)
      ELSE IF ~r.result.present THEN Catch(f, TypeError)
      ELSE CallGenCode([f EXCEPT !.structuredContent = <<"design">>])

Placeholder2(safeProjectId) ==
  <<"<!-- Stitch Preview -->", "project: ">> \o Str(safeProjectId) \o <<"</div>">>

\* Step 3 of server 2, on the value genCode returned
AfterGenCode2(f, resp) ==
  LET r == genCode(resp)
      genCodeResult == r.result
      status == Prop(genCodeResult, "status")
  IN  IF ~r.ok THEN Catch(f, r.msg)
      ELSE IF status = <<"completed">>
        THEN LET f1 == addLog(f, "Stitch", <<"exporting HTML source">>)
                 results == Prop(genCodeResult, "results")
                 htmlCode == Prop(results, "htmlCode")
                 new_interaction_id == Prop(genCodeResult, "interaction_id")
                 isHtml == Truthy(htmlCode) /\ Includes(htmlCode, "<html")
                 f2 == IF isHtml THEN addLog(f1, "Stitch", <<"code extracted">>)
                       ELSE addLog(f1, "Stitch", <<"not HTML, placeholder">>)
                 finalCode == IF isHtml THEN htmlCode
                              ELSE Placeholder2(Or(f.projectId, <<"Unknown Project">>))
             IN  IF results = Undefined THEN Catch(f1, TypeError)
                 ELSE Return(f2, FlowResult(TRUE, f2.logs, finalCode, Undefined,
                                            Or(new_interaction_id, f.interaction_id)))
        ELSE LET f1 == addLog(f, "Stitch",
                              <<"code generation status: ">> \o Str(status))
             IN  Return(f1, FlowResult(TRUE, f1.logs, <<>>, Undefined,
                                       Or(<<>>, f.interaction_id)))

\* -------------------------------------------- Flow Orchestrator, server 1 ----
\* catch (error) { return { success: false, logs, error: error.message } }
Catch1(f, msg) == Return(f, FlowResult(FALSE, f.logs, Undefined, msg, Undefined))

\* what the chat completion hands back: a failure, or a message content
ChatResponses ==
  [net : {"ok", "down"}, content : Texts(ChatChars, MaxTextLen) \cup {Null}]

\* runAgentFlow(userQuery, apiKey, e2bToken) up to its await: the client is
\* built with apiKey when there is one, else it is the module's client
runAgentFlow(f) ==
  LET cred == IF Truthy(f.token) THEN f.token
              ELSE Or(DEEPSEEK_API_KEY, <<"sk-placeholder">>)
      f1 == addLog(f, "System", <<"task: ">> \o Str(f.prompt))
      f2 == addLog(f1, "ACE-TS", <<"building the component tree">>)
      f3 == addLog(f2, "DeepSeek-V3", <<"generating the web app code">>)
  IN  Send(f3, Call("chat.completions.create", cred, Undefined, Undefined,
                    Undefined),
           "chat_completion")

\* generatedCode.replace(/~~~html/g, '').replace(/~~~/g, '')
StripFences(code) == SelectSeq(code, LAMBDA c : c \notin {"~~~html", "~~~"})

AfterCompletion1(f, resp) ==
  IF resp.net = "down" THEN Catch1(f, <<"fetch failed">>)
  ELSE IF resp.content = Null THEN Catch1(f, TypeError)
  ELSE LET generatedCode == StripFences(resp.content)
           f1 == IF Truthy(f.e2bToken)
                   THEN addLog(addLog(addLog(f, "E2B", <<"initialising sandbox">>),
                                      "E2B", <<"environment check passed">>),
                               "E2B", <<"preparing preview link">>)
                   ELSE addLog(f, "System", <<"sandbox skipped">>)
       IN  Return(f1, FlowResult(TRUE, f1.logs, generatedCode, Undefined,
                                 Undefined))

\* ---------------------------------------------------- Request Handler ----
\* servers 2, 3: try { result = await flow; res.json(result) }
\*               catch (e) { res.status(500).json({ error: e.message }) }
Respond(f) ==
  IF f.pc = "returned" THEN Reply(f, 200, Undefined, <<f.result[Len(f.result)]>>)
  ELSE IF f.pc = "threw" THEN Reply(f, 500, f.fault, <<>>)
  ELSE f

\* server 1: result = await runAgentFlow(...); res.json(result)
Respond1(f) ==
  IF f.pc = "returned" THEN Reply(f, 200, Undefined, <<f.result[Len(f.result)]>>)
  ELSE f

CredentialMissing == <<"no credential supplied">>
MissingDeepSeekKey == <<"Server missing DeepSeek API Key">>

\* the process-wide default first
ResolveTokenEnvFirst(key) == Or(STITCH_ACCESS_TOKEN, key)

\* token = config?.deepSeekKey || STITCH_ACCESS_TOKEN
ResolveToken(key) == Or(key, STITCH_ACCESS_TOKEN)

\* if (!token || token.trim() === "")
TokenRejected(token) == ~Truthy(token) \/ Trim(token) = <<>>

\* app.post('/api/generate') of server 2
HandleGenerate2(r) ==
  /\ server = 2
  /\ reqs[r].pc = "idle"
  /\ \E prompt \in Prompts, key \in ReqKeys, interaction \in Interactions :
       LET f == [reqs[r] EXCEPT !.prompt = prompt, !.key = key,
                                !.interaction_id = interaction,
                                !.token = ResolveToken(key)]
       IN  reqs' = [reqs EXCEPT ![r] =
                      IF TokenRejected(f.token)
                        THEN Reply(f, 401, CredentialMissing, <<>>)
                        ELSE Respond(runStitchAgentFlow2(f))]
  /\ UNCHANGED <<env, invocation, client>>

\* app.post('/api/generate') of server 3
HandleGenerate3(r) ==
  /\ server = 3
  /\ reqs[r].pc = "idle"
  /\ \E prompt \in Prompts, key \in ReqKeys :
       LET f == [reqs[r] EXCEPT !.prompt = prompt, !.key = key,
                                !.token = ResolveToken(key)]
       IN  reqs' = [reqs EXCEPT ![r] =
                      IF TokenRejected(f.token)
                        THEN Reply(f, 401, CredentialMissing, <<>>)
                        ELSE Respond(runStitchAgentFlow3(f))]
  /\ UNCHANGED <<env, invocation, client>>

\* app.post('/api/generate') of server 1
HandleGenerate1(r) ==
  /\ server = 1
  /\ reqs[r].pc = "idle"
  /\ \E prompt \in Prompts, key \in ReqKeys, e2b \in ReqE2b :
       LET f == [reqs[r] EXCEPT !.prompt = prompt, !.key = key,
                                !.token = Or(key, DEEPSEEK_API_KEY),
                                !.e2bToken = Or(e2b, E2B_ACCESS_TOKEN)]
       IN  reqs' = [reqs EXCEPT ![r] =
                      IF ~Truthy(f.prompt)
                        THEN Reply(f, 400, <<"Prompt is required">>, <<>>)
                      ELSE IF ~Truthy(f.token)
                        THEN Reply(f, 500, MissingDeepSeekKey, <<>>)
                      ELSE Respond1(runAgentFlow(f))]
  /\ UNCHANGED <<env, invocation, client>>

\* ------------------------------------------- the awaited calls settle ----
\* the stub transport notes whether the call it served came back
Capture(f, ok) == [f EXCEPT !.settled = Append(@, ok)]

\* ... and the payload, for the detail and the code-generation call
CapturePayload(f, payload) == [f EXCEPT !.payload = payload]

\* the text a tool answer carries, undefined when it carries none
TextOf(resp) ==
  IF callStitchToolDirect(resp).ok /\ HasContentItem(resp.result)
    THEN ContentText(resp.result) ELSE Undefined

\* the answers create_project can get, and the frame after one of them
CreateAnswers == ToolResponses(Texts(ProjectChars, MaxTextLen))

SettleCreate(f0, resp) ==
  LET f == Capture(f0, callStitchToolDirect(resp).ok)
  IN  Respond(IF server = 2 THEN AfterCreate2(f, resp) ELSE AfterCreate3(f, resp))

CreateProjectSettles(r) ==
  /\ reqs[r].pc = "create_project"
  /\ \E resp \in CreateAnswers :
       reqs' = [reqs EXCEPT ![r] = SettleCreate(reqs[r], resp)]
  /\ UNCHANGED <<env, invocation, client>>

GenerateSettles(r) ==
  /\ reqs[r].pc = "generate_screen_from_text"
  /\ \E resp \in ToolResponses(Texts(ScreenChars, MaxTextLen)) :
       reqs' = [reqs EXCEPT ![r] =
                  LET f == Capture(reqs[r], callStitchToolDirect(resp).ok)
                  IN  Respond(IF server = 2 THEN AfterGenerate2(f, resp)
                              ELSE AfterGenerate3(f, resp))]
  /\ UNCHANGED <<env, invocation, client>>

GenCodeSettles(r) ==
  /\ reqs[r].pc = "genCode"
  /\ \E resp \in GenCodeResponses :
       reqs' = [reqs EXCEPT ![r] =
                  LET f == CapturePayload(
                             Capture(reqs[r], genCode(resp).ok),
                             IF genCode(resp).ok
                               THEN Payload(resp.doc.status, resp.doc.htmlCode,
                                            resp.doc.interaction_id)
                               ELSE NoPayload)
                  IN  Respond(AfterGenCode2(f, resp))]
  /\ UNCHANGED <<env, invocation, client>>

\* get_screen without a screen id: the flow drops the answer unread
GetScreenSettles(r) ==
  /\ reqs[r].pc = "get_screen"
  /\ \E resp \in ToolResponses({<<"screens">>}) :
       reqs' = [reqs EXCEPT ![r] =
                  LET f == Capture(reqs[r], callStitchToolDirect(resp).ok)
                  IN  Respond(AfterGetScreen3(f, resp))]
  /\ UNCHANGED <<env, invocation, client>>

GetScreenDetailSettles(r) ==
  /\ reqs[r].pc = "get_screen_detail"
  /\ \E resp \in ToolResponses(Texts(HtmlChars, MaxTextLen)) :
       reqs' = [reqs EXCEPT ![r] =
                  LET f == CapturePayload(
                             Capture(reqs[r], callStitchToolDirect(resp).ok),
                             Payload(Undefined, TextOf(resp), Undefined))
                  IN  Respond(AfterDetail3(f, resp))]
  /\ UNCHANGED <<env, invocation, client>>

ChatCompletionSettles(r) ==
  /\ reqs[r].pc = "chat_completion"
  /\ \E resp \in ChatResponses :
       reqs' = [reqs EXCEPT ![r] =
                  LET f == CapturePayload(
                             Capture(reqs[r], resp.net = "ok"),
                             Payload(Undefined,
                                     IF resp.net = "ok" THEN resp.content
                                     ELSE Undefined, Undefined))
                  IN  Respond1(AfterCompletion1(f, resp))]
  /\ UNCHANGED <<env, invocation, client>>

Settles(r) ==
  \/ CreateProjectSettles(r)
  \/ GenerateSettles(r)
  \/ GenCodeSettles(r)
  \/ GetScreenSettles(r)
  \/ GetScreenDetailSettles(r)
  \/ ChatCompletionSettles(r)

Next ==
  \/ \E r \in Reqs : HandleGenerate1(r)
  \/ \E r \in Reqs : HandleGenerate2(r)
  \/ \E r \in Reqs : HandleGenerate3(r)
  \/ \E r \in Reqs : CreateProjectSettles(r)
  \/ \E r \in Reqs : GenerateSettles(r)
  \/ \E r \in Reqs : GenCodeSettles(r)
  \/ \E r \in Reqs : GetScreenSettles(r)
  \/ \E r \in Reqs : GetScreenDetailSettles(r)
  \/ \E r \in Reqs : ChatCompletionSettles(r)

Spec == Init /\ [][Next]_vars

\* every awaited call settles: the transport answers or fails
FairSpec == Spec /\ \A r \in Reqs : WF_vars(Settles(r))

\* ------------------------------------------- requests handled at once ----
\* the requests the server has in hand at the same time
ConcReqs == 1..MaxConc

\* the prompt of request r, and the project the service creates for it: a
\* fresh one at each create_project
PromptOf(r) == <<"prompt", ToString(r)>>
ProjectOf(r) == <<ToString(r)>>

\* the texts the services answer a request's calls with
ConcCreateTexts(r) == {<<"projects", "/">> \o ProjectOf(r), <<"projects">>}
ConcScreenTexts == {<<"screens", "/", "x">>, <<"x">>}
ConcHtmlTexts == {<<"<html">>, <<"x">>}
ConcGenCodeResponses ==
  [net : {"ok", "down"},
   doc : [status : {<<"completed">>}, htmlCode : ConcHtmlTexts,
          interaction_id : {<<"tok2">>}]]

\* app.post('/api/generate') of servers 2 and 3, the credential left to the
\* process default
ConcHandleGenerate(r) ==
  /\ reqs[r].pc = "idle"
  /\ \E interaction \in (IF server = 2 THEN {Undefined, <<"tok">>}
                         ELSE {Undefined}) :
       LET f == [reqs[r] EXCEPT !.prompt = PromptOf(r), !.key = Undefined,
                                !.interaction_id = interaction,
                                !.token = ResolveToken(Undefined)]
       IN  reqs' = [reqs EXCEPT ![r] =
                      IF TokenRejected(f.token)
                        THEN Reply(f, 401, CredentialMissing, <<>>)
                      ELSE IF server = 2 THEN Respond(runStitchAgentFlow2(f))
                      ELSE Respond(runStitchAgentFlow3(f))]
  /\ UNCHANGED <<env, invocation, client>>

\* create_project settles, the project id kept in a variable every flow of
\* the process reads
ConcCreateProjectSettlesShared(r) ==
  /\ reqs[r].pc = "create_project"
  /\ \E resp \in ToolResponses(ConcCreateTexts(r)) :
       LET g == SettleCreate(reqs[r], resp)
       IN  reqs' = [q \in DOMAIN reqs |->
                      IF q = r THEN g
                      ELSE [reqs[q] EXCEPT !.projectId = g.projectId]]
  /\ UNCHANGED <<env, invocation, client>>

ConcCreateProjectSettles(r) ==
  /\ reqs[r].pc = "create_project"
  /\ \E resp \in ToolResponses(ConcCreateTexts(r)) :
       reqs' = [reqs EXCEPT ![r] = SettleCreate(reqs[r], resp)]
  /\ UNCHANGED <<env, invocation, client>>

ConcGenerateSettles(r) ==
  /\ reqs[r].pc = "generate_screen_from_text"
  /\ \E resp \in ToolResponses(ConcScreenTexts) :
       reqs' = [reqs EXCEPT ![r] =
                  LET f == Capture(reqs[r], callStitchToolDirect(resp).ok)
                  IN  Respond(IF server = 2 THEN AfterGenerate2(f, resp)
                              ELSE AfterGenerate3(f, resp))]
  /\ UNCHANGED <<env, invocation, client>>

ConcGenCodeSettles(r) ==
  /\ reqs[r].pc = "genCode"
  /\ \E resp \in ConcGenCodeResponses :
       reqs' = [reqs EXCEPT ![r] =
                  Respond(AfterGenCode2(Capture(reqs[r], genCode(resp).ok), resp))]
  /\ UNCHANGED <<env, invocation, client>>

ConcGetScreenSettles(r) ==
  /\ reqs[r].pc = "get_screen"
  /\ \E resp \in ToolResponses({<<"screens">>}) :
       reqs' = [reqs EXCEPT ![r] =
                  Respond(AfterGetScreen3(
                            Capture(reqs[r], callStitchToolDirect(resp).ok), resp))]
  /\ UNCHANGED <<env, invocation, client>>

ConcGetScreenDetailSettles(r) ==
  /\ reqs[r].pc = "get_screen_detail"
  /\ \E resp \in ToolResponses(ConcHtmlTexts) :
       reqs' = [reqs EXCEPT ![r] =
                  Respond(AfterDetail3(
                            Capture(reqs[r], callStitchToolDirect(resp).ok), resp))]
  /\ UNCHANGED <<env, invocation, client>>

ConcInit ==
  /\ server \in {2, 3}
  /\ DEEPSEEK_API_KEY = Undefined
  /\ E2B_ACCESS_TOKEN = Undefined
  /\ STITCH_ACCESS_TOKEN = <<"envkey">>
  /\ DEFAULT_PROJECT_ID \in {Undefined, <<"dflt">>}
  /\ reqs = [r \in ConcReqs |-> Idle]
  /\ invocation = NoInvocation
  /\ client = App

ConcNext ==
  \/ \E r \in ConcReqs : ConcHandleGenerate(r)
  \/ \E r \in ConcReqs : ConcCreateProjectSettles(r)
  \/ \E r \in ConcReqs : ConcGenerateSettles(r)
  \/ \E r \in ConcReqs : ConcGenCodeSettles(r)
  \/ \E r \in ConcReqs : ConcGetScreenSettles(r)
  \/ \E r \in ConcReqs : ConcGetScreenDetailSettles(r)

ConcSpec == ConcInit /\ [][ConcNext]_vars

\* ------------------------------------- one tool invocation, on its own ----
\* the tools the flows call
Tools == {"create_project", "generate_screen_from_text", "get_screen"}

InvokerStatuses == {200, 204, 302, 401, 403, 500}

\* what the transport can hand back to a tool invocation: any status, a body
\* that is empty or not, and any well-formed or malformed JSON-RPC answer
InvokerResponses ==
  {NetworkDown}
  \cup UNION {Bodies(InvokerStatuses, text, {Undefined, <<"upstream">>},
                     ToolResults({<<"boom">>}), ToolResults({<<"boom">>})) :
                text \in {<<>>, <<"body">>}}

\* callStitchToolDirect(toolName, args, token) up to its await: the envelope
\* is built and one fetch leaves
InvokeTool ==
  /\ invocation.pc = "idle"
  /\ \E tool \in Tools, token \in {<<"reqkey">>, <<"envkey">>} :
       invocation' = [invocation EXCEPT !.pc = "fetching", !.tool = tool,
                                        !.token = token, !.fetches = @ + 1]
  /\ UNCHANGED <<env, reqs, client>>

\* the fetch settles: the result is returned or the error is rethrown, and
\* no further fetch is made
InvocationSettles ==
  /\ invocation.pc = "fetching"
  /\ \E resp \in InvokerResponses :
       invocation' = [invocation EXCEPT !.pc = "settled", !.response = resp,
                                        !.outcome = callStitchToolDirect(resp)]
  /\ UNCHANGED <<env, reqs, client>>

InvokerInit ==
  /\ server \in {2, 3}
  /\ DEEPSEEK_API_KEY = Undefined
  /\ E2B_ACCESS_TOKEN = Undefined
  /\ STITCH_ACCESS_TOKEN = <<"envkey">>
  /\ DEFAULT_PROJECT_ID = Undefined
  /\ reqs = [r \in Reqs |-> Idle]
  /\ invocation = NoInvocation
  /\ client = App

InvokerNext == InvokeTool \/ InvocationSettles

InvokerSpec == InvokerInit /\ [][InvokerNext]_vars

\* ------------------------------------------------ the chat client, App ----
\* what the user can have in the textarea
ClientInputs == {<<>>, <<" ">>, <<"todo">>, <<"notes">>}

\* what the back end answers the k-th prompt with: a FlowResult whose log
\* names the prompt, with or without code, or a failure (success=false, or
\* a fetch that rejects)
Answers(c, k) ==
  LET logs == <<[source |-> "System",
                 text |-> <<"design task: ">> \o c.submitted[k]]>>
  IN  {FlowResult(TRUE, logs, <<"<html">>, Undefined, Undefined),
       FlowResult(TRUE, logs, <<>>, Undefined, Undefined),
       FlowResult(FALSE, logs, Undefined, <<"failed">>, Undefined)}

\* handleSend up to its await: nothing on a blank input; else the user
\* message is added, the input and the logs are cleared, isLoading is set and
\* the fetch leaves with the prompt
handleSend(c) ==
  IF Trim(c.input) = <<>> THEN c
  ELSE [c EXCEPT !.submitted = Append(@, c.input),
                 !.input = <<>>,
                 !.isLoading = TRUE,
                 !.agentLogs = <<>>,
                 !.inflight = @ \cup {Len(c.submitted) + 1}]

\* onChange={(e) => setInput(e.target.value)}
TypeInput ==
  /\ \E text \in ClientInputs \ {client.input} :
       client' = [client EXCEPT !.input = text]
  /\ UNCHANGED <<env, reqs, invocation>>

\* <button onClick={handleSend} disabled={!input.trim() || isLoading}>
ClickSend ==
  /\ Trim(client.input) # <<>>
  /\ ~client.isLoading
  /\ Len(client.submitted) < MaxSends
  /\ client' = handleSend(client)
  /\ UNCHANGED <<env, reqs, invocation>>

\* onKeyDown={(e) => e.key === 'Enter' && !e.shiftKey && handleSend()}
PressEnter ==
  /\ Len(client.submitted) < MaxSends
  /\ client' = handleSend(client)
  /\ UNCHANGED <<env, reqs, invocation>>

\* handleSend from its await on, for the k-th prompt: the logs and the
\* artifact of a successful answer are shown, an Error entry is added for a
\* failed one, and isLoading is cleared in the finally block
ResponseArrives ==
  /\ \E k \in client.inflight : \E data \in Answers(client, k) :
       LET c1 == IF data.success
                   THEN [client EXCEPT
                           !.agentLogs = data.logs,
                           !.shown = k,
                           !.currentArtifact =
                              IF Truthy(data.code) THEN data.code ELSE @]
                   ELSE [client EXCEPT
                           !.agentLogs = Append(@, [source |-> "Error",
                                                    text |-> data.error])]
       IN  client' = [c1 EXCEPT !.isLoading = FALSE, !.inflight = @ \ {k}]
  /\ UNCHANGED <<env, reqs, invocation>>

ClientInit ==
  /\ server = 3
  /\ DEEPSEEK_API_KEY = Undefined
  /\ E2B_ACCESS_TOKEN = Undefined
  /\ STITCH_ACCESS_TOKEN = Undefined
  /\ DEFAULT_PROJECT_ID = Undefined
  /\ reqs = [r \in Reqs |-> Idle]
  /\ invocation = NoInvocation
  /\ client = App

ClientNext == TypeInput \/ ClickSend \/ PressEnter \/ ResponseArrives

ClientSpec == ClientInit /\ [][ClientNext]_vars

\* ============================================================ claims ====
Done(r) == reqs[r].pc = "done"

\* the flow function ran for request r (the handler accepted the request)
Ran(r) == reqs[r].calls # <<>>

\* request r was answered with the FlowResult of its flow
Answered(r) == reqs[r].pc = "done" /\ Len(reqs[r].result) = 1

\* the FlowResult request r was answered with
Final(r) == reqs[r].result[1]

Called(r, tool) == \E i \in DOMAIN reqs[r].calls : reqs[r].calls[i].tool = tool

Stitch == server \in {2, 3}

\* the pattern projects\/([^\s"']+) matches somewhere in text, stated
\* without the matcher
HasProjectId(text) ==
  \E i \in 1..(Len(text) - 2) :
     /\ text[i] = "projects"
     /\ text[i + 1] = "/"
     /\ text[i + 2] \notin {" ", "\"", "'"}

\* create_project answers that pass every check of the Tool Invoker and carry
\* a text in which the pattern does not match
NoIdAnswers ==
  {a \in CreateAnswers :
     /\ callStitchToolDirect(a).ok
     /\ HasContentItem(a.result)
     /\ ContentText(a.result) # Undefined
     /\ ~HasProjectId(ContentText(a.result))}

\* the frame of a flow that ended on the project-id error having called
\* create_project and nothing else
FailedOnProjectId(f) ==
  /\ f.pc = "done"
  /\ Len(f.result) = 1
  /\ f.result[1].success = FALSE
  /\ f.result[1].error = ProjectIdError
  /\ f.responses = <<[status |-> 200, error |-> Undefined, body |-> f.result]>>
  /\ \A i \in DOMAIN f.calls : f.calls[i].tool = "create_project"

\* C1: with no default project id configured, a create_project answer whose
\* text holds no match for the project-id pattern ends the flow with
\* success=false and the project-id error, and neither
\* generate_screen_from_text nor any later call is made: whatever such
\* answer a waiting flow gets, and in every flow whose id came out null
C1_NoProjectIdFailsFlow ==
  \A r \in Reqs :
     /\ (Stitch /\ reqs[r].pc = "create_project") =>
          \A a \in NoIdAnswers : FailedOnProjectId(SettleCreate(reqs[r], a))
     /\ (Stitch /\ reqs[r].projectId = Null) => FailedOnProjectId(reqs[r])

C1_Witness ==
  \E r \in Reqs :
     /\ Stitch
     /\ ~Truthy(DEFAULT_PROJECT_ID)
     /\ reqs[r].projectId = Null
     /\ Done(r)
     /\ reqs[r].settled = <<TRUE>>
     /\ Final(r).error = ProjectIdError

\* C2: while a default project id is configured, create_project is never
\* called, and generate_screen_from_text is called with the configured id
C2_DefaultProjectReused ==
  \A r \in Reqs :
     (Stitch /\ Truthy(DEFAULT_PROJECT_ID)) =>
        \A i \in DOMAIN reqs[r].calls :
           /\ reqs[r].calls[i].tool # "create_project"
           /\ reqs[r].calls[i].tool = "generate_screen_from_text" =>
                reqs[r].calls[i].projectId = DEFAULT_PROJECT_ID

C2_Witness ==
  \E r \in Reqs :
     /\ Stitch
     /\ Truthy(DEFAULT_PROJECT_ID)
     /\ Answered(r)
     /\ Final(r).success
     /\ Called(r, "generate_screen_from_text")

\* every call the flow of request r made came back without a failure
AllSettledOk(r) == \A i \in DOMAIN reqs[r].settled : reqs[r].settled[i]

\* C3: a flow all of whose outbound calls succeed returns success=true and
\* a non-empty code, whatever the successful answers hold.  Read in the
\* claim's favour: the answers are well-formed (no TypeError on a missing
\* member) and the project id was resolved
C3_AllCallsSucceedGivesCode ==
  \A r \in Reqs :
     (/\ Stitch
      /\ Answered(r)
      /\ AllSettledOk(r)
      /\ Final(r).error \notin {TypeError, ProjectIdError}) =>
        /\ Final(r).success
        /\ Truthy(Final(r).code)

\* the process-wide default credential of the running server
DefaultCredential ==
  IF server = 1 THEN DEEPSEEK_API_KEY ELSE STITCH_ACCESS_TOKEN

\* C4: when the request carries a non-empty credential and a process-wide
\* default exists, every tool call of the request carries the request's
\* credential, and no outbound call carries the default (the code-generation
\* call carries no credential at all)
C4_RequestCredentialSent ==
  \A r \in Reqs :
     (Truthy(reqs[r].key) /\ Truthy(DefaultCredential)) =>
        \A i \in DOMAIN reqs[r].calls :
           /\ reqs[r].calls[i].tool # "genCode" =>
                reqs[r].calls[i].cred = reqs[r].key
           /\ reqs[r].calls[i].tool = "genCode" =>
                reqs[r].calls[i].cred = Undefined
           /\ reqs[r].key # DefaultCredential =>
                reqs[r].calls[i].cred # DefaultCredential

C4_Witness ==
  \E r \in Reqs :
     /\ reqs[r].key = <<"reqkey">>
     /\ DefaultCredential = <<"envkey">>
     /\ Len(reqs[r].calls) >= 2
     /\ \A i \in DOMAIN reqs[r].calls : reqs[r].calls[i].cred = <<"reqkey">>

\* a credential is available: it is there and is not blank
Present(v) == Truthy(v) /\ Trim(v) # <<>>

\* request r was rejected as credential-missing
RejectedNoCredential(r) ==
  \E i \in DOMAIN reqs[r].responses :
     reqs[r].responses[i].error \in {CredentialMissing, MissingDeepSeekKey}

\* the handler of request r got as far as its credential check
ReachedCredentialCheck(r) ==
  reqs[r].pc # "idle" /\ (server = 1 => Truthy(reqs[r].prompt))

\* C5: a request is rejected as credential-missing, with no flow and no
\* outbound call, exactly when neither the request nor the process offers a
\* credential: it is rejected when both are absent, and only when neither
\* is available, so never while a process-wide default exists, a blank
\* request value included
C5_RejectedIffNoCredential ==
  \A r \in Reqs :
     ReachedCredentialCheck(r) =>
        /\ (~Truthy(reqs[r].key) /\ ~Truthy(DefaultCredential)) =>
             RejectedNoCredential(r)
        /\ RejectedNoCredential(r) =>
             (~Present(reqs[r].key) /\ ~Present(DefaultCredential))
        /\ RejectedNoCredential(r) =>
             (reqs[r].calls = <<>> /\ reqs[r].result = <<>>)

\* C6: when an outbound call fails the flow makes no further call, the last
\* entry of the returned log is an Error entry with the failure message, and
\* the result is success=false with that message as error
C6_FailureLoggedAndReturned ==
  \A r \in Reqs :
     (\E i \in DOMAIN reqs[r].settled : ~reqs[r].settled[i]) =>
        /\ Answered(r)
        /\ Len(reqs[r].calls) = Len(reqs[r].settled)
        /\ ~reqs[r].settled[Len(reqs[r].settled)]
        /\ Final(r).success = FALSE
        /\ Final(r).logs # <<>>
        /\ Final(r).logs[Len(Final(r).logs)] =
             [source |-> "Error", text |-> Final(r).error]

\* the stub served request r a detail or code-generation payload
Retrieved(r) == reqs[r].payload.markup # Undefined

\* C7: a flow that succeeds on a payload without the markup root tag returns
\* a non-empty code that contains the flow's resolved project id
C7_PlaceholderNamesProject ==
  \A r \in Reqs :
     (/\ Stitch
      /\ Answered(r)
      /\ Final(r).success
      /\ Retrieved(r)
      /\ ~Includes(reqs[r].payload.markup, "<html")) =>
        /\ Truthy(Final(r).code)
        /\ Contains(Final(r).code, Str(reqs[r].projectId))

\* C8: a payload (of a completed generation) that contains the markup root
\* tag is returned as the code, unchanged, with success=true
C8_MarkupReturnedVerbatim ==
  \A r \in Reqs :
     (/\ Stitch
      /\ Retrieved(r)
      /\ reqs[r].payload.status \in {Undefined, <<"completed">>}
      /\ Includes(reqs[r].payload.markup, "<html")) =>
        /\ Answered(r)
        /\ Final(r).success
        /\ Final(r).code = reqs[r].payload.markup

\* the test of the shortcut: the token is absent, empty or whitespace-only
Blank(v) == ~Truthy(v) \/ Trim(v) = <<>>

Retrieval == {"genCode", "get_screen"}

\* the calls of a full run, in order: create_project first unless a default
\* project id is configured, generation right after it (or first), retrieval
\* only after generation
FullSequence(r) ==
  LET c == reqs[r].calls
  IN  /\ c[1].tool = IF Truthy(DEFAULT_PROJECT_ID)
                       THEN "generate_screen_from_text" ELSE "create_project"
      /\ \A i \in 2..Len(c) :
            /\ c[i].tool # "create_project"
            /\ c[i].tool = "generate_screen_from_text" =>
                 c[i - 1].tool = "create_project"
            /\ c[i].tool \in Retrieval =>
                 c[i - 1].tool \in {"generate_screen_from_text", "get_screen"}
      /\ (Answered(r) /\ Final(r).success) =>
            /\ Called(r, "generate_screen_from_text")
            /\ \E i \in DOMAIN c : c[i].tool \in Retrieval

\* C9: a flow started with a non-blank interaction_id calls neither
\* create_project nor generate_screen_from_text, and its first call is the
\* code retrieval carrying that token; a flow started with an absent, empty
\* or whitespace-only token runs project resolution, generation and
\* retrieval in that order
C9_ContinuationTokenShortcut ==
  \A r \in Reqs :
     (Stitch /\ Ran(r)) =>
        IF ~Blank(reqs[r].interaction_id)
          THEN /\ reqs[r].calls[1].tool = "genCode"
               /\ reqs[r].calls[1].interaction_id = reqs[r].interaction_id
               /\ ~Called(r, "create_project")
               /\ ~Called(r, "generate_screen_from_text")
          ELSE FullSequence(r)

C9_Witness ==
  \E r \in Reqs :
     /\ server = 2
     /\ reqs[r].interaction_id = <<"tok">>
     /\ Answered(r)
     /\ Final(r).success
     /\ Len(reqs[r].calls) = 1
     /\ reqs[r].calls[1].tool = "genCode"

\* the handler has accepted request r and not answered it yet
InFlight(r) == reqs[r].pc \notin {"idle", "done"}

\* one response, built from the one FlowResult the flow returned, which is
\* Done (success=true) or Failed (success=false, with its message); no fault
\* left the flow function
OneTerminalResult(r) ==
  /\ reqs[r].fault = Null
  /\ reqs[r].pc \notin {"returned", "threw"}
  /\ Len(reqs[r].result) <= 1
  /\ Len(reqs[r].responses) <= 1
  /\ InFlight(r) => (reqs[r].result = <<>> /\ reqs[r].responses = <<>>)
  /\ (Done(r) /\ Ran(r)) =>
        /\ Len(reqs[r].result) = 1
        /\ reqs[r].responses =
             <<[status |-> 200, error |-> Undefined, body |-> reqs[r].result]>>
        /\ Final(r).logs = reqs[r].logs
        /\ \/ Final(r).success = TRUE /\ Final(r).error = Undefined
           \/ Final(r).success = FALSE /\ Truthy(Final(r).error)

\* C10: every request that passes validation gets exactly one response,
\* built from exactly one FlowResult in a terminal state; no fault escapes
\* the flow function, so the handler's 500 branch is never taken; and, every
\* outbound call settling, the flow terminates
C10_OneResultAndTermination ==
  /\ [](\A r \in Reqs : OneTerminalResult(r))
  /\ \A r \in Reqs : InFlight(r) ~> Done(r)

C10_Witness ==
  \E r \in Reqs :
     /\ server = 2
     /\ Answered(r)
     /\ Final(r).success = FALSE
     /\ Len(reqs[r].calls) = 3
     /\ reqs[r].responses[1].status = 200

\* ---- C11
\* the first check of the Tool Invoker a response fails, in the order
\* transport, status, parse, error member, isError flag; "none" when it
\* passes them all
FirstFailure(resp) ==
  IF resp.net = "down" THEN "transport"
  ELSE IF resp.status < 200 \/ resp.status > 299 THEN
         IF resp.status = 401 THEN "auth" ELSE "status"
  ELSE IF ~resp.json THEN "parse"
  ELSE IF resp.error THEN "error member"
  ELSE IF resp.result.present /\ resp.result.isError THEN "isError"
  ELSE "none"

\* how a thrown message opens, per kind of failure
Opening ==
  [k \in {"transport", "auth", "status", "parse", "error member", "isError"} |->
     CASE k = "transport" -> "fetch failed"
       [] k = "auth" -> "auth failed (401), body: "
       [] k = "status" -> "HTTP Error "
       [] k = "parse" -> "cannot parse response JSON: "
       [] k = "error member" -> "MCP logic error: "
       [] k = "isError" -> "tool returned error: "]

\* the message the upstream gave for a failure of that kind, <<>> when it
\* gave none
UpstreamMessage(resp, kind) ==
  CASE kind \in {"auth", "status", "parse"} -> resp.text
    [] kind = "error member" ->
         IF resp.message = Undefined THEN <<>> ELSE resp.message
    [] kind = "isError" ->
         IF resp.result.content = <<>> \/ resp.result.content[1] = Undefined
           THEN <<>> ELSE resp.result.content[1]
    [] OTHER -> <<>>

\* C11: a tool invocation makes exactly one fetch; it returns data.result
\* exactly when the response passes the status (2xx), parse, error-member
\* and isError checks; otherwise it throws, the kind of the failure being
\* that of the first check failed in that order, a 401 reported as an
\* authentication failure, and the message holding what the upstream sent
C11_SingleAttemptClassified ==
  /\ invocation.fetches = (IF invocation.pc = "idle" THEN 0 ELSE 1)
  /\ invocation.pc = "settled" =>
       LET resp == invocation.response
           out == invocation.outcome
           kind == FirstFailure(resp)
       IN  /\ out.ok <=> kind = "none"
           /\ out.ok => out.result = resp.result
           /\ ~out.ok =>
                /\ Head(out.msg) = Opening[kind]
                /\ Contains(out.msg, UpstreamMessage(resp, kind))

\* an HTTP 500 whose body parses and holds an error member: the status
\* check comes first
C11_Witness ==
  /\ invocation.pc = "settled"
  /\ invocation.fetches = 1
  /\ invocation.response.status = 500
  /\ invocation.response.json
  /\ invocation.response.error
  /\ invocation.response.message = <<"upstream">>
  /\ Head(invocation.outcome.msg) = "HTTP Error "

\* ---- C12
\* the place of a log entry in the flow's step order
LogRank(entry) ==
  IF entry.source = "System" THEN 1
  ELSE IF entry.source = "Error" THEN 8
  ELSE CASE Head(entry.text) = "no project id, creating a project" -> 2
         [] Head(entry.text) = "project ready: " -> 3
         [] Head(entry.text) = "sending the design request" -> 4
         [] Head(entry.text) = "generated, Screen ID: " -> 5
         [] Head(entry.text) = "design stored, no preview id" -> 5
         [] Head(entry.text) = "exporting HTML source" -> 6
         [] Head(entry.text) = "code generation status: " -> 6
         [] OTHER -> 7

InStepOrder(logs) ==
  \A i, j \in DOMAIN logs : i < j => LogRank(logs[i]) < LogRank(logs[j])

\* the text names the prompt or the project of a request other than r
NamesAnother(text, r) ==
  \E q \in ConcReqs \ {r} :
     Contains(text, PromptOf(q)) \/ Contains(text, ProjectOf(q))

\* what request r holds is its own: its log has its own entries only (the
\* task entry with its prompt, the project entry with its project), in step
\* order; the project id of its calls is the configured one or the one
\* created for it; its result carries its log and names no other request
Independent(r) ==
  LET f == reqs[r]
  IN  /\ InStepOrder(f.logs)
      /\ \A i \in DOMAIN f.logs :
            /\ ~NamesAnother(f.logs[i].text, r)
            /\ f.logs[i].source = "System" =>
                 f.logs[i].text = <<"design task: ">> \o PromptOf(r)
            /\ LogRank(f.logs[i]) = 3 =>
                 f.logs[i].text = <<"project ready: ">> \o ProjectOf(r)
      /\ \A i \in DOMAIN f.calls :
            /\ f.calls[i].projectId \in
                 {Undefined, DEFAULT_PROJECT_ID, ProjectOf(r)}
            /\ f.calls[i].tool # "create_project" =>
                 (Truthy(DEFAULT_PROJECT_ID) =>
                    f.calls[i].projectId \in {Undefined, DEFAULT_PROJECT_ID})
      /\ f.projectId \in {Undefined, Null, DEFAULT_PROJECT_ID, ProjectOf(r)}
      /\ Answered(r) =>
            /\ Final(r).logs = f.logs
            /\ Final(r).success => ~NamesAnother(Final(r).code, r)

\* C12: however the steps of the requests in hand interleave, each request's
\* log (and the log of its FlowResult) holds only its own flow's entries in
\* step order, no flow uses a project id created for another, and the
\* process-wide configuration is never written
C12_RequestsIndependent ==
  /\ [](\A r \in ConcReqs : Independent(r))
  /\ [][env' = env]_vars

\* two requests in hand, each of which created its own project and ran on
\* to a successful answer
C12_Witness ==
  /\ \A r \in {1, 2} :
        /\ Answered(r)
        /\ Final(r).success
        /\ reqs[r].projectId = ProjectOf(r)
        /\ Len(reqs[r].calls) >= 3
  /\ reqs[1].projectId # reqs[2].projectId

\* ---- C13
\* the step a call belongs to: project, generation, retrieval
StepOf(tool) ==
  CASE tool = "create_project" -> 1
    [] tool = "generate_screen_from_text" -> 2
    [] OTHER -> 3

\* the calls of request r go up through the steps, no step entered twice
StepsOnce(r) ==
  \A i, j \in DOMAIN reqs[r].calls :
     i < j => StepOf(reqs[r].calls[i].tool) < StepOf(reqs[r].calls[j].tool)

\* the log follows the steps; a flow that starts at project resolution
\* logs its System entry first
LogFollowsSteps(r) ==
  /\ InStepOrder(reqs[r].logs)
  /\ (reqs[r].logs # <<>> /\ Blank(reqs[r].interaction_id)) =>
        reqs[r].logs[1].source = "System"

\* C13: within one flow the calls go create_project (if needed), generate,
\* retrieval, each tool called at most once and none after a later step has
\* started, and the log entries come in the order of the steps, the System
\* entry first
C13_StepsInOrderOnce ==
  \A r \in Reqs : (Stitch /\ Ran(r)) => (StepsOnce(r) /\ LogFollowsSteps(r))

\* ---- C14
\* C14: a flow whose generate answer holds no parsable screen id (its other
\* calls succeeding) does not fail: it returns success=true and a non-empty,
\* displayable code
C14_NoScreenIdStillDisplayable ==
  \A r \in Reqs :
     (/\ server = 3
      /\ Answered(r)
      /\ AllSettledOk(r)
      /\ reqs[r].screenId = Null) =>
        /\ Final(r).success
        /\ Truthy(Final(r).code)

\* ---- C15
\* C15: a successful flow whose code-generation answer (of a completed
\* generation) carries an interaction_id returns that one; when the answer
\* carries none, it returns the inbound one
C15_NewTokenReturned ==
  \A r \in Reqs :
     (/\ server = 2
      /\ Answered(r)
      /\ Final(r).success
      /\ reqs[r].payload.status = <<"completed">>) =>
        Final(r).interaction_id =
          IF Truthy(reqs[r].payload.interaction_id)
            THEN reqs[r].payload.interaction_id
            ELSE reqs[r].interaction_id

\* ---- C16
\* how many calls of request r went to the tool
Count(r, tool) ==
  Cardinality({i \in DOMAIN reqs[r].calls : reqs[r].calls[i].tool = tool})

\* C16: a flow that has reached the retrieval step holds a resolved project
\* id, created by at most one create_project or taken from the
\* configuration, and has generated at most one artifact; so does a flow
\* that came in by the interaction_id shortcut
C16_OneProjectAtRetrieval ==
  \A r \in Reqs :
     (Stitch /\ \E i \in DOMAIN reqs[r].calls :
                   reqs[r].calls[i].tool \in Retrieval) =>
        /\ Truthy(reqs[r].projectId)
        /\ Count(r, "create_project") <= 1
        /\ Count(r, "generate_screen_from_text") <= 1

\* ---- C17
\* C17: in the chat client isLoading is true exactly while a request is in
\* flight, at most one request is in flight (no handleSend starts while one
\* is pending, by the button or by the Enter key), and once nothing is in
\* flight the logs shown are those of the last prompt submitted
C17_OneRequestAtATime ==
  /\ client.isLoading <=> client.inflight # {}
  /\ Cardinality(client.inflight) <= 1
  /\ (client.inflight = {} /\ client.shown # 0 /\ client.agentLogs # <<>>
        /\ client.agentLogs[Len(client.agentLogs)].source # "Error") =>
        /\ client.shown = Len(client.submitted)
        /\ client.agentLogs[1].text =
             <<"design task: ">> \o client.submitted[Len(client.submitted)]

====
